---- MODULE Spec2Model ----
(***************************************************************************)
(* Model of src/main.rs of basic_dataframes_rust: the Excel serial-date    *)
(* decoder (Date::from_excel_datetype), the fragment date constructor      *)
(* (Date::from_numbers), the cell classifier (into_cell_value) and the     *)
(* table builder (DataFrame::read_from_xlsx with DataFrame::handle_dates). *)
(*                                                                         *)
(* The pure functions are operators computed the way the code computes     *)
(* them (loops become RECURSIVE operators, "as u8" is % 256).  Each        *)
(* specification applies one group of operations:                          *)
(*   SpecSerial    Date::from_excel_datetype                               *)
(*   SpecNumbers   Date::from_numbers                                      *)
(*   SpecClassify  into_cell_value                                         *)
(*   Spec          DataFrame::new followed by read_from_xlsx calls         *)
(***************************************************************************)
EXTENDS Integers, Sequences, FiniteSets, TLC

VARIABLES
    call,       \* the most recent operation and its arguments
    ret,        \* what that operation returned
    data,       \* DataFrame.data: Vec<Vec<Cell>>
    workbook,   \* the sheets of the .xlsx file on disk (read only)
    pc          \* "call": the operation of call is about to run; "return":
                \* it has returned ret; "idle": the DataFrame awaits a call;
                \* "panicked": an expect() has failed

vars == <<call, ret, data, workbook, pc>>

(***************************************************************************)
(* Bounds of the model.                                                    *)
(***************************************************************************)
MaxSerial == 37000      \* serials 0..MaxSerial: 1900-01-01 .. 2001-04-18
MaxRows == 3            \* rows of the sheet "Sheet1"
MaxCells == 3           \* cells of the sheet "Sheet1", over all its rows

(***************************************************************************)
(* Result<T, DateParseError> and Option<T>.                                *)
(***************************************************************************)
None == [some |-> FALSE]
Some(v) == [some |-> TRUE, val |-> v]
unwrap_or(opt, default) == IF opt.some THEN opt.val ELSE default

Ok(v) == [ok |-> TRUE, val |-> v]
Err(e) == [ok |-> FALSE, err |-> e]
\* Result::ok(): Ok(v) -> Some(v), Err(_) -> None
ResultOk(r) == IF r.ok THEN Some(r.val) ELSE None

Date(y, m, d) == [year |-> y, month |-> m, day |-> d]

U8 == 256
U16Max == 65535

(***************************************************************************)
(* impl Date: calendar helpers.                                            *)
(***************************************************************************)
\* is_leap_year without the century rule
is_leap_year_julian(year) == year % 4 = 0

is_leap_year(year) ==
    (year % 4 = 0 /\ year % 100 # 0) \/ year % 400 = 0

days_in_year(year) == IF is_leap_year(year) THEN 366 ELSE 365

days_in_month(year, month) ==
    IF month \in {1, 3, 5, 7, 8, 10, 12} THEN 31
    ELSE IF month \in {4, 6, 9, 11} THEN 30
    ELSE IF month = 2 THEN (IF is_leap_year(year) THEN 29 ELSE 28)
    ELSE 0

(***************************************************************************)
(* Date::from_excel_datetype.  year is a u16 and month a u8 (their types   *)
(* are inferred from days_in_year / days_in_month); "+= 1" on the largest  *)
(* value is an arithmetic overflow, reported here as Overflow.  It needs a *)
(* serial beyond year 65535 and is outside the serials of this model.      *)
(***************************************************************************)
Overflow == Err("Overflow")

\* while days_remaining >= days_in_year(year) { days_remaining -= ...; year += 1 }
RECURSIVE YearLoop(_, _)
YearLoop(year, days_remaining) ==
    IF days_remaining >= days_in_year(year)
    THEN IF year = U16Max
         THEN Overflow
         ELSE YearLoop(year + 1, days_remaining - days_in_year(year))
    ELSE Ok([year |-> year, days_remaining |-> days_remaining])

\* while days_remaining >= days_in_month(year, month) { ...; month += 1 }
RECURSIVE MonthLoop(_, _, _)
MonthLoop(year, month, days_remaining) ==
    IF days_remaining >= days_in_month(year, month)
    THEN IF month = U8 - 1
         THEN Overflow
         ELSE MonthLoop(year, month + 1,
                        days_remaining - days_in_month(year, month))
    ELSE Ok([month |-> month, days_remaining |-> days_remaining])

from_excel_datetype(serial) ==
    IF serial < 1 THEN Err("InvalidSerialNumber")
    ELSE
      LET base_year == 1900
          corrected_serial == IF serial > 60 THEN serial - 1 ELSE serial
          days_since_base == corrected_serial - 1
          y == YearLoop(base_year, days_since_base)
      IN  IF ~y.ok THEN y
          ELSE
            LET m == MonthLoop(y.val.year, 1, y.val.days_remaining)
            IN  IF ~m.ok THEN m
                ELSE
                  LET day == (m.val.days_remaining % U8) + 1
                  IN  IF day > days_in_month(y.val.year, m.val.month)
                      THEN Err("InvalidDate")
                      ELSE Ok(Date(y.val.year, m.val.month, day))

(***************************************************************************)
(* Date::from_numbers.  The fragments are u32 (T: Into<u32>); month and    *)
(* day are cut to u8 by "as u8", the year keeps its 32 bits.               *)
(***************************************************************************)
as_u8(v) == v % U8

months_with_31_days == {1, 3, 5, 7, 8, 10, 12}

\* the match on format: Ok(<<year, month, day>>) or UnsupportedFormat
MatchFormat(frag1, frag2, frag3, format) ==
    IF format = "YYYY/MM/DD" THEN Ok(<<frag1, as_u8(frag2), as_u8(frag3)>>)
    ELSE IF format = "DD/MM/YYYY" THEN Ok(<<frag3, as_u8(frag2), as_u8(frag1)>>)
    ELSE IF format = "MM/DD/YYYY" THEN Ok(<<frag3, as_u8(frag1), as_u8(frag2)>>)
    ELSE Err("UnsupportedFormat")

\* the validation logic on (year, month, day)
Validate(year, month, day) ==
    IF day >= 32 THEN Err("InvalidDay")
    ELSE IF month \notin months_with_31_days /\ ~(day <= 31) THEN Err("InvalidDay")
    ELSE IF month = 2 /\ is_leap_year(year) /\ day > 29 THEN Err("InvalidDay")
    ELSE IF month = 2 /\ ~is_leap_year(year) /\ day > 28 THEN Err("InvalidDay")
    ELSE IF month \notin 1..12 THEN Err("InvalidMonth")
    ELSE IF year = 0 THEN Err("InvalidYear")
    ELSE Ok(Date(year, month, day))

from_numbers(frag1, frag2, frag3, format) ==
    LET ymd == MatchFormat(frag1, frag2, frag3, format)
    IN  IF ~ymd.ok THEN ymd
        ELSE Validate(ymd.val[1], ymd.val[2], ymd.val[3])

(***************************************************************************)
(* Raw cells.  into_cell_value sees a cell only through the probes of the  *)
(* DataType trait, so a cell is the record of its probe outcomes, plus the *)
(* enum variant and date payload that handle_dates matches on.             *)
(*   - an i64 v is the pair [hi, lo] with v = hi * 2^31 + lo and           *)
(*     0 <= lo < 2^31, since 2^31 itself is not a TLC integer;             *)
(*   - an f64 is its number of halves (11 is 5.5).                         *)
(***************************************************************************)
I64(hi, lo) == [hi |-> hi, lo |-> lo]
I32Max == 2147483647

\* val >= (i32::MIN as i64) && val <= (i32::MAX as i64)
FitsI32(v) == v.hi \in {-1, 0}
\* val as i32, for a value that fits
AsI32(v) == IF v.hi = 0 THEN v.lo ELSE (v.lo - I32Max) - 1

\* bool::to_string
BoolToString(b) == IF b THEN "true" ELSE "false"

RawCell(variant, int, float, string, bool, empty, error, datetime) ==
    [variant |-> variant, get_int |-> int, get_float |-> float,
     get_string |-> string, get_bool |-> bool, is_empty |-> empty,
     get_error |-> error, datetime |-> datetime]

\* calamine::Data: each variant answers exactly its own probe
DataInt(v) == RawCell("Int", Some(v), None, None, None, FALSE, None, None)
DataFloat(f) == RawCell("Float", None, Some(f), None, None, FALSE, None, None)
DataString(t) == RawCell("String", None, None, Some(t), None, FALSE, None, None)
DataBool(b) == RawCell("Bool", None, None, None, Some(b), FALSE, None, None)
DataDateTime(f) == RawCell("DateTime", None, None, None, None, FALSE, None, Some(f))
DataError(e) == RawCell("Error", None, None, None, None, FALSE, Some(e), None)
DataEmpty == RawCell("Empty", None, None, None, None, TRUE, None, None)

(***************************************************************************)
(* enum CellValues, struct Cell, into_cell_value.                          *)
(***************************************************************************)
CellValues_Int(v) == [kind |-> "Int", val |-> v]
CellValues_Float(v) == [kind |-> "Float", val |-> v]
CellValues_Text(v) == [kind |-> "Text", val |-> v]
CellValues_Date(v) == [kind |-> "Date", val |-> v]

Cell(value) == [value |-> value]

into_cell_value(cell) ==
    IF cell.get_int.some
    THEN IF FitsI32(cell.get_int.val)
         THEN Some(CellValues_Int(AsI32(cell.get_int.val)))
         ELSE None
    ELSE IF cell.get_float.some THEN Some(CellValues_Float(cell.get_float.val))
    ELSE IF cell.get_string.some THEN Some(CellValues_Text(cell.get_string.val))
    ELSE IF cell.get_bool.some THEN Some(CellValues_Text(BoolToString(cell.get_bool.val)))
    ELSE IF cell.is_empty THEN None
    ELSE IF cell.get_error.some THEN None
    ELSE None

(***************************************************************************)
(* DataFrame::handle_dates and DataFrame::read_from_xlsx.                  *)
(***************************************************************************)
\* f64 as u32 on a number of halves: the fraction is dropped, a negative
\* value saturates to 0
AsU32(halves) == IF halves < 0 THEN 0 ELSE halves \div 2

handle_dates(cell) ==
    IF cell.variant = "DateTime"
    THEN LET serial_number == AsU32(cell.datetime.val)
         IN  ResultOk(from_excel_datetype(serial_number))
    ELSE None

\* the cell loop without the push of an empty cell
RECURSIVE CellLoop_drops_empty(_, _)
CellLoop_drops_empty(cells, temp_row) ==
    IF cells = << >> THEN temp_row
    ELSE
      LET individual_cell == Head(cells)
          temp_cell == into_cell_value(individual_cell)
          date == handle_dates(individual_cell)
      IN  CellLoop_drops_empty(Tail(cells),
            IF temp_cell.some
                THEN Append(temp_row, Cell(Some(temp_cell.val)))
            ELSE IF date.some
                THEN Append(temp_row, Cell(Some(CellValues_Date(date.val))))
            ELSE temp_row)

\* for individual_cell in rows { ... temp_row.push(...) }
RECURSIVE CellLoop(_, _)
CellLoop(cells, temp_row) ==
    IF cells = << >> THEN temp_row
    ELSE
      LET individual_cell == Head(cells)
          temp_cell == into_cell_value(individual_cell)
          pushed ==
            IF temp_cell.some THEN Cell(Some(temp_cell.val))
            ELSE LET date == handle_dates(individual_cell)
                 IN  IF date.some THEN Cell(Some(CellValues_Date(date.val)))
                     ELSE Cell(None)
      IN  CellLoop(Tail(cells), Append(temp_row, pushed))

\* for rows in range.rows() { ... data_for_dataframe.push(temp_row) }
RECURSIVE RowLoop(_, _)
RowLoop(rows, data_for_dataframe) ==
    IF rows = << >> THEN data_for_dataframe
    ELSE RowLoop(Tail(rows),
                 Append(data_for_dataframe, CellLoop(Head(rows), << >>)))

\* Xlsx::worksheet_range: the rows of the named sheet, or an error
worksheet_range(wb, sheet_name) ==
    IF sheet_name \in DOMAIN wb THEN Ok(wb[sheet_name]) ELSE Err("NotFound")

\* read_from_xlsx that leaves self.data alone when the sheet is absent
read_from_xlsx_keeps_table(self, wb, provided_sheet_name, provided_with_headers) ==
    LET sheet_name == unwrap_or(provided_sheet_name, "Sheet1")
        range == worksheet_range(wb, sheet_name)
    IN  IF range.ok THEN RowLoop(range.val, << >>) ELSE self

\* the new value of self.data, once the workbook has been opened
read_from_xlsx(self, wb, provided_sheet_name, provided_with_headers) ==
    LET sheet_name == unwrap_or(provided_sheet_name, "Sheet1")
        range == worksheet_range(wb, sheet_name)
    IN  IF range.ok THEN RowLoop(range.val, << >>) ELSE << >>

(***************************************************************************)
(* State machine.                                                          *)
(***************************************************************************)
InitSerial ==
    /\ call \in {[op |-> "from_excel_datetype", serial |-> s] : s \in 0..MaxSerial}
    /\ ret = None
    /\ data = << >>
    /\ workbook = << >>
    /\ pc = "call"

FromExcelDatetype ==
    /\ pc = "call"
    /\ call.op = "from_excel_datetype"
    /\ ret' = from_excel_datetype(call.serial)
    /\ pc' = "return"
    /\ UNCHANGED <<call, data, workbook>>

NextSerial == FromExcelDatetype

SpecSerial == InitSerial /\ [][NextSerial]_vars

(***************************************************************************)
(* SpecNumbers: one call of Date::from_numbers on fragments drawn from     *)
(* Frags, which holds the boundary days and months, their images modulo    *)
(* 256 (256 + 1, 256 + 2, 256 + 4, 256 + 29, 256 + 31) and some years.     *)
(***************************************************************************)
Frags == {0, 1, 2, 4, 12, 13, 28, 29, 30, 31, 32, 255, 256, 257, 258, 260,
          285, 287, 1900, 2000, 2023, 2024}

SupportedFormats == {"YYYY/MM/DD", "DD/MM/YYYY", "MM/DD/YYYY"}
Formats == SupportedFormats \cup {"YYYY-MM-DD"}

InitNumbers ==
    /\ call \in {[op |-> "from_numbers", frag1 |-> f1, frag2 |-> f2,
                  frag3 |-> f3, format |-> fmt] :
                    f1 \in Frags, f2 \in Frags, f3 \in Frags, fmt \in Formats}
    /\ ret = None
    /\ data = << >>
    /\ workbook = << >>
    /\ pc = "call"

FromNumbers ==
    /\ pc = "call"
    /\ call.op = "from_numbers"
    /\ ret' = from_numbers(call.frag1, call.frag2, call.frag3, call.format)
    /\ pc' = "return"
    /\ UNCHANGED <<call, data, workbook>>

NextNumbers == FromNumbers

SpecNumbers == InitNumbers /\ [][NextNumbers]_vars

(***************************************************************************)
(* SpecClassify: one call of into_cell_value on a &dyn DataType whose      *)
(* probes answer in every combination.                                     *)
(***************************************************************************)
I64Values == {I64(0, 5), I64(-1, I32Max - 6), I64(0, I32Max), I64(-1, 0),
              I64(1, 0), I64(-2, I32Max)}

DynCells ==
    {RawCell("Dyn", int, float, string, bool, empty, error, None) :
        int \in {None} \cup {Some(v) : v \in I64Values},
        float \in {None, Some(11)},
        string \in {None, Some("hi")},
        bool \in {None, Some(TRUE), Some(FALSE)},
        empty \in BOOLEAN,
        error \in {None, Some("Div0")}}

InitClassify ==
    /\ call \in {[op |-> "into_cell_value", data |-> c] : c \in DynCells}
    /\ ret = None
    /\ data = << >>
    /\ workbook = << >>
    /\ pc = "call"

IntoCellValue ==
    /\ pc = "call"
    /\ call.op = "into_cell_value"
    /\ ret' = into_cell_value(call.data)
    /\ pc' = "return"
    /\ UNCHANGED <<call, data, workbook>>

NextClassify == IntoCellValue

SpecClassify == InitClassify /\ [][NextClassify]_vars

(***************************************************************************)
(* Spec: a DataFrame made by DataFrame::new, then any number of            *)
(* read_from_xlsx calls.  The file at WorkbookPath holds the sheets of     *)
(* workbook; no other path can be opened.                                  *)
(***************************************************************************)
\* the cells the sheet "Sheet1" is made of: an integer, 60.5 days (serial
\* 60) and 0.5 days (serial 0, which does not decode)
SheetCells == {DataInt(I64(0, 5)), DataDateTime(121), DataDateTime(1)}

SeqsUpTo(S, n) == UNION {[1..k -> S] : k \in 0..n}

\* the sheets of at most rows rows and cells cells, rows of any lengths
RECURSIVE GridsWithin(_, _)
GridsWithin(rows, cells) ==
    IF rows = 0 THEN {<< >>}
    ELSE {<< >>} \cup
         UNION {{<<r>> \o g : g \in GridsWithin(rows - 1, cells - Len(r))} :
                    r \in SeqsUpTo(SheetCells, cells)}

Grids == GridsWithin(MaxRows, MaxCells)

\* the sheet "Data": the other kinds of cell, in rows of different lengths
\* (5.5, empty, "hi" / no cell / true, an error, 2^31 and -0.5 days)
OtherSheet ==
    <<<<DataFloat(11), DataEmpty, DataString("hi")>>,
      << >>,
      <<DataBool(TRUE), DataError("Div0"), DataInt(I64(1, 0)),
        DataDateTime(-1)>>>>

Workbooks == {[s \in {"Sheet1", "Data"} |->
                  IF s = "Sheet1" THEN g ELSE OtherSheet] : g \in Grids}

WorkbookPath == "data\\test.xlsx"
Paths == {WorkbookPath, "nofile.xlsx"}

SheetNames == {None, Some("Data"), Some("Missing")}
HeaderFlags == {None, Some(TRUE), Some(FALSE)}

\* DataFrame::new(data)
InitialTables == {<<<< >>>>, <<<<Cell(Some(CellValues_Int(7)))>>>>}

Init ==
    /\ call = [op |-> "new"]
    /\ ret = None
    /\ data \in InitialTables
    /\ workbook \in Workbooks
    /\ pc = "idle"

\* open_workbook(path).expect("failed to open file") panics on a path that
\* cannot be opened; otherwise the table is rebuilt and self.data replaced
ReadFromXlsx ==
    /\ pc = "idle"
    /\ \E path \in Paths :
          IF path = WorkbookPath
          THEN \E sheet \in SheetNames, with_headers \in HeaderFlags :
                  /\ call' = [op |-> "read_from_xlsx", path |-> path,
                              provided_sheet_name |-> sheet,
                              provided_with_headers |-> with_headers]
                  /\ data' = read_from_xlsx(data, workbook, sheet, with_headers)
                  /\ pc' = "idle"
          ELSE /\ call' = [op |-> "read_from_xlsx", path |-> path]
               /\ pc' = "panicked"
               /\ data' = data
    /\ UNCHANGED <<ret, workbook>>

Next == ReadFromXlsx

Spec == Init /\ [][Next]_vars

(***************************************************************************)
(* Reference Gregorian calendar, independent of the code above: the number *)
(* of days from 0000-03-01 to a civil date, and the civil month lengths.   *)
(***************************************************************************)
GregorianLeap(y) ==
    IF y % 400 = 0 THEN TRUE ELSE IF y % 100 = 0 THEN FALSE ELSE y % 4 = 0

GregorianMonthLength(y, m) ==
    <<31, IF GregorianLeap(y) THEN 29 ELSE 28, 31, 30, 31, 30,
      31, 31, 30, 31, 30, 31>>[m]

IsGregorianDate(d) ==
    /\ d.year >= 1
    /\ d.month \in 1..12
    /\ d.day \in 1..GregorianMonthLength(d.year, d.month)

DayNumber(y, m, d) ==
    LET yy == IF m <= 2 THEN y - 1 ELSE y
        mm == IF m <= 2 THEN m + 9 ELSE m - 3
    IN  365 * yy + (yy \div 4) - (yy \div 100) + (yy \div 400)
          + ((153 * mm + 2) \div 5) + d - 1

DaysAfterEpoch(d) == DayNumber(d.year, d.month, d.day) - DayNumber(1900, 1, 1)

\* C1 (as claimed): serial 60 decodes to the fictitious 1900-02-29, so that
\* serials 59, 60 and 61 decode to the three different dates 1900-02-28,
\* 1900-02-29 and 1900-03-01.
C1_Serial60IsLeapDay ==
    (pc = "return" /\ call.op = "from_excel_datetype"
        /\ call.serial \in {59, 60, 61}) =>
        ret = Ok(Date(1900, IF call.serial = 61 THEN 3 ELSE 2,
                      IF call.serial = 61 THEN 1 ELSE call.serial - 31))

\* C2: decode_serial agrees with the reference calendar on every serial
\* other than 60: serial 0 fails with InvalidSerialNumber, a serial s in
\* 1..59 is the Gregorian date s-1 days after 1900-01-01, a serial s >= 61
\* the Gregorian date s-2 days after it; no serial >= 1 gives InvalidDate
\* and the day returned lies in 1..days_in_month(year, month).
C2_SerialMatchesCalendar ==
    (pc = "return" /\ call.op = "from_excel_datetype") =>
        /\ call.serial = 0 => ret = Err("InvalidSerialNumber")
        /\ call.serial >= 1 =>
              /\ ret.ok
              /\ ret.val.day >= 1
              /\ ret.val.day <= days_in_month(ret.val.year, ret.val.month)
        /\ (call.serial >= 1 /\ call.serial # 60) =>
              /\ IsGregorianDate(ret.val)
              /\ DaysAfterEpoch(ret.val) =
                    IF call.serial <= 59 THEN call.serial - 1
                    ELSE call.serial - 2

\* C2 witness: a serial beyond the leap day of the year 2000 has been decoded.
C2_Witness ==
    /\ pc = "return"
    /\ call.op = "from_excel_datetype"
    /\ call.serial > 36586
    /\ ret.ok
    /\ ret.val.year = 2000
    /\ ret.val.month = 12

(***************************************************************************)
(* Date::from_numbers: the fragments a format designates.                  *)
(***************************************************************************)
Returned(op) == pc = "return" /\ call.op = op

YearFrag(c) == IF c.format = "YYYY/MM/DD" THEN c.frag1 ELSE c.frag3
MonthFrag(c) == IF c.format = "MM/DD/YYYY" THEN c.frag1 ELSE c.frag2
DayFrag(c) ==
    IF c.format = "YYYY/MM/DD" THEN c.frag3
    ELSE IF c.format = "DD/MM/YYYY" THEN c.frag1
    ELSE c.frag2

\* C3 (as claimed): in every supported format and for every year >= 1, day
\* 31 of a 30-day month (4, 6, 9, 11) is rejected with InvalidDay.
C3_Day31RejectedIn30DayMonths ==
    (/\ Returned("from_numbers")
     /\ call.format \in SupportedFormats
     /\ YearFrag(call) >= 1
     /\ MonthFrag(call) \in {4, 6, 9, 11}
     /\ DayFrag(call) = 31) => ret = Err("InvalidDay")

\* C4 (as claimed): for month 2 and a year >= 1, days 1..28 are accepted,
\* day 29 is accepted exactly in a Gregorian leap year, and every day above
\* the limit (29 in a leap year, 28 otherwise) fails with InvalidDay.
C4_FebruaryLeapRule ==
    (/\ Returned("from_numbers")
     /\ call.format \in SupportedFormats
     /\ YearFrag(call) >= 1
     /\ MonthFrag(call) = 2) =>
        LET limit == IF GregorianLeap(YearFrag(call)) THEN 29 ELSE 28
        IN  /\ DayFrag(call) \in 1..limit =>
                ret = Ok(Date(YearFrag(call), 2, DayFrag(call)))
            /\ DayFrag(call) > limit => ret = Err("InvalidDay")

\* C8 (as claimed): every Date that decode_components returns has
\* year >= 1, month in 1..12 and day >= 1.
C8_ReturnedDateInRange ==
    (Returned("from_numbers") /\ ret.ok) =>
        /\ ret.val.year >= 1
        /\ ret.val.month \in 1..12
        /\ ret.val.day >= 1

\* C9 (as claimed): whenever the fragment designated as the day is >= 32,
\* decode_components fails with InvalidDay, whatever the month and the
\* year are, also for day fragments of 256 and above.
C9_DayFrom32Rejected ==
    (/\ Returned("from_numbers")
     /\ call.format \in SupportedFormats
     /\ DayFrag(call) >= 32) => ret = Err("InvalidDay")

(***************************************************************************)
(* into_cell_value: the dispatch priority as a list of rules.              *)
(***************************************************************************)
\* the value of an i64 that lies in the signed 32-bit range
InRangeValue(v) == IF v.hi = 0 THEN v.lo ELSE v.lo - I32Max - 1

FirstMatch(c) ==
    IF c.get_int.some /\ c.get_int.val.hi \in {-1, 0}
        THEN Some(CellValues_Int(InRangeValue(c.get_int.val)))
    ELSE IF c.get_float.some THEN Some(CellValues_Float(c.get_float.val))
    ELSE IF c.get_string.some THEN Some(CellValues_Text(c.get_string.val))
    ELSE IF c.get_bool.some
        THEN Some(CellValues_Text(IF c.get_bool.val THEN "true" ELSE "false"))
    ELSE None

\* C5 (as claimed): classify returns the outcome of the first rule whose
\* condition holds: integer that fits 32 bits, float, string, boolean as
\* text, then no value; an integer out of the 32-bit range does not stop
\* the later rules from being tried.
C5_FirstMatchingRuleWins ==
    Returned("into_cell_value") => ret = FirstMatch(call.data)

(***************************************************************************)
(* DataFrame::read_from_xlsx: the table a worksheet is expected to give.   *)
(***************************************************************************)
ReadReturned == pc = "idle" /\ call.op = "read_from_xlsx"

RequestedSheet(c) ==
    IF c.provided_sheet_name.some THEN c.provided_sheet_name.val ELSE "Sheet1"

ExpectedCell(c) ==
    LET v == into_cell_value(c)
        d == from_excel_datetype(IF c.datetime.val < 0 THEN 0
                                 ELSE c.datetime.val \div 2)
    IN  IF v.some THEN Cell(v)
        ELSE IF c.variant = "DateTime" /\ d.ok
                THEN Cell(Some(CellValues_Date(d.val)))
        ELSE Cell(None)

TableOf(grid) ==
    [i \in 1..Len(grid) |-> [j \in 1..Len(grid[i]) |-> ExpectedCell(grid[i][j])]]

C7_HeaderFlagSkipsFirstRow ==
    (/\ ReadReturned
     /\ call.provided_with_headers = Some(TRUE)
     /\ RequestedSheet(call) \in DOMAIN workbook
     /\ workbook[RequestedSheet(call)] # << >>) =>
        data = TableOf(Tail(workbook[RequestedSheet(call)]))

\* C10: after a read_from_xlsx call has returned, the table is the one built
\* from that call alone, and the empty table when the requested sheet
\* (default "Sheet1") is absent; nothing of the earlier table survives.
C10_TableReplacedByLastCall ==
    ReadReturned =>
        data = IF RequestedSheet(call) \in DOMAIN workbook
               THEN TableOf(workbook[RequestedSheet(call)])
               ELSE << >>

\* C10 witness: a call for a sheet that is absent has returned and left the
\* table empty.
C10_Witness ==
    /\ ReadReturned
    /\ call.provided_sheet_name = Some("Missing")
    /\ workbook["Sheet1"] # << >>
    /\ data = << >>
====
